---- MODULE Spec2Model ----
(***************************************************************************)
(* A model of shazoom's fingerprint database: DatabaseConfig::from_args,   *)
(* Song::signatures, DatabaseBuilder::{add_song, build} and                *)
(* Database::match_sample.                                                 *)
(*                                                                         *)
(* The FFT of Song::constellation_map is not computed here: a recording is *)
(* given by its constellation map, the sequence of per-slice peak lists    *)
(* that the front end hands to Song::signatures.  The peak selection that  *)
(* follows the FFT is modelled on its own, over given spectra (SpecPeaks). *)
(***************************************************************************)
EXTENDS Integers, Sequences, FiniteSets, TLC

VARIABLES
    args,             \* the parsed command line (main.rs Args)
    config,           \* the DatabaseConfig made from args, or NoConfig
    overflow_checks,  \* build profile: TRUE panics on integer overflow, FALSE wraps
    phase,            \* "Building" | "Ingest" | "Built" | "Aborted" | "Pure"
    data,             \* DatabaseBuilder.data: the entries in add_song order
    added,            \* history: the files given to add_song, in order
    slots,            \* build: result slot of each per-song worker
    finished,         \* build: worker indices in completion order
    db_data,          \* Database.data: Signature -> postings
    db_song_paths,    \* Database.song_paths
    sample,           \* the last query handed to match_sample, or NoSample;
                      \* in SpecPure and SpecPeaks the input of the function
    matches,          \* what that call returned
    emitted,          \* what Song::signatures returned for `sample` (SpecPure),
                      \* what the constellation closure returned (SpecPeaks)
    songs_dir,        \* SpecCache: the songs directory, file name -> content
    cache,            \* SpecCache: the cache directory on disk,
                      \* subdirectory -> (file name -> content)
    cache_dir,        \* DatabaseBuilder.cache_dir: None, or the subdirectory
    build_config      \* the DatabaseConfig passed to build

cache_vars == <<songs_dir, cache, cache_dir, build_config>>

vars == <<args, config, overflow_checks, phase, data, added, slots, finished,
          db_data, db_song_paths, sample, matches, emitted, cache_vars>>

----------------------------------------------------------------------------
(* Bounds of the model *)

MaxSongs == 2
MaxSlices == 4
PureMaxSlices == 3
MaxAmpl == 2
CacheMaxSlices == 2

(* Program constants *)

\* Freq = u16
FreqModulus == 65536

----------------------------------------------------------------------------
(* Generic helpers *)

Min(a, b) == IF a <= b THEN a ELSE b

RECURSIVE Flatten(_)
Flatten(ss) == IF Len(ss) = 0 THEN <<>> ELSE Head(ss) \o Flatten(Tail(ss))

\* All sequences over S of length exactly n / at most n
SeqsOfLen(S, n) == [1..n -> S]
SeqsUpTo(S, n) == UNION {SeqsOfLen(S, k) : k \in 0..n}

Distinct(s) == \A i, j \in 1..Len(s) : i # j => s[i] # s[j]

Ok(v) == [ok |-> TRUE, val |-> v]
Panic == [ok |-> FALSE, val |-> <<>>]

NoConfig == [set |-> FALSE]
NoSample == [set |-> FALSE]
NoResult == [set |-> FALSE]

\* A builder made with cache_dir = None touches neither directory
NoCacheDir == [set |-> FALSE]
CacheUnused ==
    /\ songs_dir = <<>>
    /\ cache = <<>>
    /\ cache_dir = NoCacheDir
    /\ build_config = NoConfig

----------------------------------------------------------------------------
(* DatabaseConfig::from_args *)

\* The fuzz_factor argument is dropped by the `..` pattern; nothing is validated
\* (the TODO of line 61).
from_args(a) ==
    [set |-> TRUE,
     slice_size |-> a.ms_timeslice_size,
     freq_per_slice |-> a.freq_per_slice,
     bucket_size |-> a.size_bucket,
     bucket_count |-> a.count_bucket,
     target_zone_size |-> <<a.width_target_zone, a.target_zone_height>>]

----------------------------------------------------------------------------
(* Song::signatures *)

\* u16::saturating_sub
saturating_sub(a, x) == IF a >= x THEN a - x ELSE 0

\* anchor_freq + target_zone_height / 2 on u16, when it does not panic
wrapping_add(a, x) == (a + x) % FreqModulus

\* A faulty variant of InZone, closed above: C8 must tell it from InZone
InZoneClosed(anchor_freq, target_zone_height, target_freq) ==
    /\ saturating_sub(anchor_freq, target_zone_height \div 2) <= target_freq
    /\ target_freq <= wrapping_add(anchor_freq, target_zone_height \div 2)

\* the filter of Song::signatures; evaluated only where no overflow panic occurs
InZone(anchor_freq, target_zone_height, target_freq) ==
    /\ saturating_sub(anchor_freq, target_zone_height \div 2) <= target_freq
    /\ target_freq < wrapping_add(anchor_freq, target_zone_height \div 2)

\* Signature((anchor, target), time_offset)
Signature(a, b, dt) == <<<<a, b>>, dt>>

\* target_slices = constellation_map[i .. min(len, i + width)], i counted from 0;
\* its length
TargetSlicesLen(cmap, i, w) == Min(Len(cmap), i + w) - i

\* The signatures of anchor slice i (from 0), in emission order (a, dt, b)
SliceSignatures(w, h, cmap, i) ==
    LET slice == cmap[i + 1]
        n == TargetSlicesLen(cmap, i, w)
        ForTarget(a, dt) ==
            LET hit == SelectSeq(cmap[i + dt + 1], LAMBDA b : InZone(a, h, b))
            IN  [k \in 1..Len(hit) |-> Signature(a, hit[k], dt)]
        ForAnchor(a) == Flatten([dt \in 1..(n - 1) |-> ForTarget(a, dt)])
    IN  Flatten([k \in 1..Len(slice) |-> ForAnchor(slice[k])])

\* Whether producing slice i's signatures evaluates anchor + height / 2 with a
\* sum that does not fit u16: the filter runs once per (anchor, target) pair
SliceOverflows(w, h, cmap, i) ==
    \E k \in 1..Len(cmap[i + 1]) :
        /\ cmap[i + 1][k] + (h \div 2) >= FreqModulus
        /\ \E dt \in 1..(TargetSlicesLen(cmap, i, w) - 1) : Len(cmap[i + dt + 1]) > 0

\* Song::signatures, consumed to the end.  An empty map makes `len() - 1`
\* underflow: a panic with overflow checks, and without them the range
\* 0..usize::MAX whose first index is out of bounds, a panic again.
Signatures(w, h, cmap, checks) ==
    IF Len(cmap) = 0 THEN Panic
    ELSE IF checks /\ \E i \in 0..(Len(cmap) - 2) : SliceOverflows(w, h, cmap, i)
         THEN Panic
         ELSE Ok([j \in 1..(Len(cmap) - 1) |-> SliceSignatures(w, h, cmap, j - 1)])

\* DatabaseConfig::signatures: the constellation map of the song, then the pairs
ConfigSignatures(cfg, cmap, checks) ==
    Signatures(cfg.target_zone_size[1], cfg.target_zone_size[2], cmap, checks)

----------------------------------------------------------------------------
(* The recordings *)

\* The peak lists Song::constellation_map can give one slice under cfg: one
\* winner for each of the min(freq_per_slice, bucket_count) loudest buckets,
\* each a bin below bucket_size * bucket_count, no two from one bucket
SlicePeaks(cfg) ==
    LET k == Min(cfg.freq_per_slice, cfg.bucket_count)
        bins == 0..(cfg.bucket_size * cfg.bucket_count - 1)
    IN  {s \in SeqsOfLen(bins, k) :
            \A i, j \in 1..k : i # j =>
                s[i] \div cfg.bucket_size # s[j] \div cfg.bucket_size}

\* The constellation maps of recordings of at most n slices
ConstellationMaps(cfg, n) == SeqsUpTo(SlicePeaks(cfg), n)

\* A file of the songs directory, named by what it holds.  kind: "wav" (PCM16
\* mono, with the constellation map its samples give), "stereo" (channel count
\* 2), "truncated" (shorter than its header), "unreadable" (exists, cannot be
\* read), "missing" (no such path)
File(kind, cmap) == [name |-> <<kind, cmap>>, kind |-> kind, cmap |-> cmap]

BadKinds == {"stereo", "truncated", "unreadable", "missing"}

FilesOf(cfg) ==
    {File("wav", c) : c \in ConstellationMaps(cfg, MaxSlices)}
        \cup {File(k, <<>>) : k \in BadKinds}

\* std::fs::read(path)
FsRead(f) == IF f.kind \in {"unreadable", "missing"} THEN Panic ELSE Ok(f)

\* Song::from_wav: indexing bytes 22..25 and the mono assertion panic
from_wav(bytes) ==
    IF bytes.kind \in {"truncated", "stereo"} THEN Panic ELSE Ok(bytes.cmap)

----------------------------------------------------------------------------
(* DatabaseBuilder *)

\* BuilderEntry::Entry(SongEntry { name, path })
Entry(f) == [name |-> f.name, path |-> f]

\* DatabaseBuilder::add_song without a cache directory: None for a path that
\* does not exist, else the entry is pushed
add_song(d, f) == IF f.kind = "missing" THEN d ELSE Append(d, Entry(f))

\* The song_signatures closure of build: SongData, the signatures of the
\* song in slice order, each with its anchor slice
song_signatures(cfg, bytes, checks) ==
    LET song == from_wav(bytes)
    IN  IF ~song.ok THEN Panic
        ELSE LET sig == ConfigSignatures(cfg, song.val, checks)
             IN  IF ~sig.ok THEN Panic
                 ELSE Ok(Flatten([t \in 1..Len(sig.val) |->
                            [k \in 1..Len(sig.val[t]) |-> <<sig.val[t][k], t - 1>>]]))

\* The body of the par_iter().map closure for one entry
Worker(cfg, entry, checks) ==
    LET bytes == FsRead(entry.path)
    IN  IF ~bytes.ok THEN Panic ELSE song_signatures(cfg, bytes.val, checks)

\* A faulty variant of Collect, in the order the workers happened to finish:
\* C2 must tell it from Collect
CollectAsFinished(d, sl, fin) ==
    [k \in 1..Len(fin) |-> <<d[fin[k]].name, sl[fin[k]].val>>]

\* par_iter().map(..).collect() into a Vec: an indexed parallel iterator, so
\* the results stand in the order of self.data whatever order they finished in
Collect(d, sl, fin) ==
    [k \in 1..Len(d) |-> <<d[k].name, sl[k].val>>]

\* db.data.entry(signature).or_insert(Vec::new()).push(posting)
PushPosting(dd, signature, posting) ==
    IF signature \in DOMAIN dd
    THEN [dd EXCEPT ![signature] = Append(@, posting)]
    ELSE dd @@ (signature :> <<posting>>)

\* The inner for_each of the merge loop: one song's data under song id `id`
RECURSIVE MergeSong(_, _, _)
MergeSong(dd, id, songdata) ==
    IF Len(songdata) = 0 THEN dd
    ELSE MergeSong(PushPosting(dd, Head(songdata)[1], <<id, Head(songdata)[2]>>),
                   id, Tail(songdata))

\* The serial merge loop of build over the collected (name, SongData) pairs
RECURSIVE Merge(_, _)
Merge(db, collected) ==
    IF Len(collected) = 0 THEN db
    ELSE Merge([data |-> MergeSong(db.data, Len(db.song_paths), Head(collected)[2]),
                song_paths |-> Append(db.song_paths, Head(collected)[1])],
               Tail(collected))

\* Database::new
DatabaseNew == [data |-> <<>>, song_paths |-> <<>>]

----------------------------------------------------------------------------
(* Database::match_sample *)

\* f32 quotients are kept as exact fractions <<numerator, denominator>> in
\* lowest terms; a zero denominator stands for the NaN / infinity of x / 0.0
RECURSIVE Gcd(_, _)
Gcd(a, b) == IF b = 0 THEN a ELSE Gcd(b, a % b)

Fraction(num, den) ==
    LET g == Gcd(num, den)
    IN  IF g = 0 THEN <<0, 0>> ELSE <<num \div g, den \div g>>

\* a / b for fractions a and b
FractionDiv(a, b) == Fraction(a[1] * b[2], a[2] * b[1])

\* A faulty variant of Average, with truncating integer division: C9 must
\* tell it from Average
AverageTruncated(sum, n) == Fraction(sum \div n, 1)

\* let average = sum as f32 / n as f32
Average(sum, n) == Fraction(sum, n)

\* song_offsets.entry(song_id).or_insert(..).entry(offset).or_insert(0) += 1
Bump(song_offsets, song_id, offset) ==
    LET table == IF song_id \in DOMAIN song_offsets
                 THEN song_offsets[song_id] ELSE <<>>
        count == IF offset \in DOMAIN table THEN table[offset] ELSE 0
        bumped == [o \in DOMAIN table \cup {offset} |->
                      IF o = offset THEN count + 1 ELSE table[o]]
    IN  [s \in DOMAIN song_offsets \cup {song_id} |->
            IF s = song_id THEN bumped ELSE song_offsets[s]]

\* matches.iter().for_each: the postings of one looked-up signature
RECURSIVE CountPostings(_, _, _)
CountPostings(song_offsets, postings, sample_timestamp) ==
    IF Len(postings) = 0 THEN song_offsets
    ELSE CountPostings(Bump(song_offsets, Head(postings)[1],
                            Head(postings)[2] - sample_timestamp),
                       Tail(postings), sample_timestamp)

\* signatures.iter().for_each: the signatures of one slice of the sample
RECURSIVE CountSlice(_, _, _, _)
CountSlice(song_offsets, dd, signatures, sample_timestamp) ==
    IF Len(signatures) = 0 THEN song_offsets
    ELSE CountSlice(IF Head(signatures) \in DOMAIN dd
                    THEN CountPostings(song_offsets, dd[Head(signatures)],
                                       sample_timestamp)
                    ELSE song_offsets,
                    dd, Tail(signatures), sample_timestamp)

\* .enumerate().for_each over the slices of the sample, from slice `from`
RECURSIVE CountSample(_, _, _, _)
CountSample(song_offsets, dd, slices, from) ==
    IF from > Len(slices) THEN song_offsets
    ELSE CountSample(CountSlice(song_offsets, dd, slices[from], from - 1),
                     dd, slices, from + 1)

\* The loop over one song's offset table, visiting its bins in `order`
RECURSIVE ScanTable(_, _, _)
ScanTable(table, order, acc) ==
    IF Len(order) = 0 THEN acc
    ELSE LET offset == Head(order)
             freq == table[offset]
             better == freq > acc.max_freq
         IN  ScanTable(table, Tail(order),
                       [sum |-> acc.sum + freq,
                        max_freq |-> IF better THEN freq ELSE acc.max_freq,
                        best_offset |-> IF better THEN offset ELSE acc.best_offset,
                        n |-> acc.n + 1])

\* The Match built from one song's table
MatchOf(cfg, song_id, table, order) ==
    LET acc == ScanTable(table, order,
                         [sum |-> 0, max_freq |-> 0, best_offset |-> 0, n |-> 0])
    IN  [id |-> song_id,
         offset |-> acc.best_offset * cfg.slice_size,
         freq |-> acc.max_freq,
         score |-> FractionDiv(Fraction(acc.max_freq, 1), Average(acc.sum, acc.n)),
         n |-> acc.n]

\* The elements of a finite set of integers in ascending order
RECURSIVE Ascending(_)
Ascending(S) ==
    IF S = {} THEN <<>>
    ELSE LET m == CHOOSE x \in S : \A y \in S : x <= y
         IN  <<m>> \o Ascending(S \ {m})

\* An iteration order of a hash map's keys.  The order of FxHashMap::iter is
\* not specified; any key may come first.  The rest follow in ascending order,
\* which is enough to give every result the scanning loop can produce.
IterOrder(keys, first) == <<first>> \o Ascending(keys \ {first})

\* The choices of a first-visited bin for each song's table
FirstBins(song_offsets) ==
    LET offsets == UNION {DOMAIN song_offsets[s] : s \in DOMAIN song_offsets}
    IN  {f \in [DOMAIN song_offsets -> offsets] :
            \A s \in DOMAIN song_offsets : f[s] \in DOMAIN song_offsets[s]}

\* The histogram match_sample fills, or a panic out of the signature iterator
SongOffsets(cfg, dd, smp, checks) ==
    LET sig == ConfigSignatures(cfg, smp, checks)
    IN  IF ~sig.ok THEN Panic ELSE Ok(CountSample(<<>>, dd, sig.val, 1))

\* The Vec<Match> returned, as a set: song_offsets.iter() fixes no order on it
MatchSet(cfg, song_offsets, first) ==
    {MatchOf(cfg, s, song_offsets[s], IterOrder(DOMAIN song_offsets[s], first[s])) :
        s \in DOMAIN song_offsets}

----------------------------------------------------------------------------
(* The program: one builder, one build, then queries *)

\* A small-scale command line: one bucket of two bins, one peak per slice, a
\* target zone of three slices by two bins, the default slice of 50 ms and the
\* default fuzz factor
ModelArgs ==
    [ms_timeslice_size |-> 50, freq_per_slice |-> 1, size_bucket |-> 2,
     count_bucket |-> 1, width_target_zone |-> 3, target_zone_height |-> 2,
     fuzz_factor |-> 1]

ModelConfig == from_args(ModelArgs)

\* The songs directory: every recording of at most MaxSlices slices that
\* ModelConfig can see, and one file of each bad kind
SongsDir == FilesOf(ModelConfig)

\* The samples a query may hold
Queries == ConstellationMaps(ModelConfig, MaxSlices)

Init ==
    /\ args = ModelArgs
    /\ config = ModelConfig
    /\ overflow_checks \in BOOLEAN
    /\ phase = "Building"
    /\ data = <<>>
    /\ added = <<>>
    /\ slots = <<>>
    /\ finished = <<>>
    /\ db_data = <<>>
    /\ db_song_paths = <<>>
    /\ sample = NoSample
    /\ matches = NoResult
    /\ emitted = NoResult
    /\ CacheUnused

\* DatabaseBuilder::add_song
AddSong(f) ==
    /\ phase = "Building"
    /\ Len(data) < MaxSongs
    /\ data' = add_song(data, f)
    /\ added' = IF f.kind = "missing" THEN added ELSE Append(added, f)
    /\ UNCHANGED <<args, config, overflow_checks, phase, slots, finished,
                   db_data, db_song_paths, sample, matches, emitted,
                   cache_vars>>

\* DatabaseBuilder::build, up to the start of the parallel map: the builder is
\* moved into the call, the empty Database made, one worker per entry spawned
BuildStart ==
    /\ phase = "Building"
    /\ phase' = "Ingest"
    /\ slots' = [i \in 1..Len(data) |-> NoResult]
    /\ finished' = <<>>
    /\ db_data' = DatabaseNew.data
    /\ db_song_paths' = DatabaseNew.song_paths
    /\ UNCHANGED <<args, config, overflow_checks, data, added, sample, matches,
                   emitted, cache_vars>>

\* One worker of the parallel map runs to its end.  A panic in it is
\* propagated by the pool to the caller of build, which so never returns.
WorkerDone(i) ==
    /\ phase = "Ingest"
    /\ ~slots[i].set
    /\ LET r == Worker(config, data[i], overflow_checks)
       IN  IF r.ok
           THEN /\ slots' = [slots EXCEPT ![i] = [set |-> TRUE, val |-> r.val]]
                /\ finished' = Append(finished, i)
                /\ phase' = phase
           ELSE /\ phase' = "Aborted"
                /\ UNCHANGED <<slots, finished>>
    /\ UNCHANGED <<args, config, overflow_checks, data, added, db_data,
                   db_song_paths, sample, matches, emitted,
                   cache_vars>>

\* A faulty variant of DatabaseAvailable, the Database handed out while build
\* is still at work: C5 must tell it from DatabaseAvailable
DatabaseAvailableEarly(ph) == ph \in {"Ingest", "Built"}

\* Whether a Database value is in the caller's hands: build returns it, and
\* nothing else of the program makes one
DatabaseAvailable(ph) == ph = "Built"

\* DatabaseBuilder::build, from collect() to its return: the serial merge in
\* the order of the collected vector; the builder is dropped
BuildFinish ==
    /\ phase = "Ingest"
    /\ \A i \in 1..Len(data) : slots[i].set
    /\ LET db == Merge(DatabaseNew, Collect(data, slots, finished))
       IN  /\ db_data' = db.data
           /\ db_song_paths' = db.song_paths
    /\ phase' = "Built"
    /\ data' = <<>>
    /\ slots' = <<>>
    /\ finished' = <<>>
    /\ UNCHANGED <<args, config, overflow_checks, added, sample, matches, emitted,
                   cache_vars>>

\* Database::match_sample, called by the driver's loop over the samples
MatchSample(q) ==
    /\ DatabaseAvailable(phase)
    /\ ~sample.set
    /\ LET so == SongOffsets(config, db_data, q, overflow_checks)
       IN  IF so.ok
           THEN \E first \in FirstBins(so.val) :
                    matches' = [set |-> TRUE, ok |-> TRUE,
                                val |-> MatchSet(config, so.val, first)]
           ELSE matches' = [set |-> TRUE, ok |-> FALSE, val |-> {}]
    /\ sample' = [set |-> TRUE, cmap |-> q]
    /\ UNCHANGED <<args, config, overflow_checks, phase, data, added, slots,
                   finished, db_data, db_song_paths, emitted,
                   cache_vars>>

\* The driver reports the matches and turns to the next sample (main.rs, the
\* body of the loop after match_sample)
Report ==
    /\ sample.set
    /\ sample' = NoSample
    /\ matches' = NoResult
    /\ UNCHANGED <<args, config, overflow_checks, phase, data, added, slots,
                   finished, db_data, db_song_paths, emitted,
                   cache_vars>>

Next ==
    \/ \E f \in SongsDir : AddSong(f)
    \/ BuildStart
    \/ \E i \in 1..Len(data) : WorkerDone(i)
    \/ BuildFinish
    \/ \E q \in Queries : MatchSample(q)
    \/ Report

Spec == Init /\ [][Next]_vars

----------------------------------------------------------------------------
(* Song::signatures alone, over arbitrary constellation maps *)

\* Peak bins at both ends of u16
PureFreqs == {0, 1, FreqModulus - 1}

\* Peak lists of at most two distinct bins
PurePeaks == {s \in SeqsUpTo(PureFreqs, 2) : Distinct(s)}

PureMaps == SeqsUpTo(PurePeaks, PureMaxSlices)

\* Command lines that differ in the target zone
ZoneArgs ==
    {[ModelArgs EXCEPT !.width_target_zone = w, !.target_zone_height = h] :
        w \in {1, 2, 3}, h \in {2, 4}}

InitPure ==
    /\ args \in ZoneArgs
    /\ config = from_args(args)
    /\ overflow_checks \in BOOLEAN
    /\ phase = "Pure"
    /\ data = <<>>
    /\ added = <<>>
    /\ slots = <<>>
    /\ finished = <<>>
    /\ db_data = <<>>
    /\ db_song_paths = <<>>
    /\ sample \in {[set |-> TRUE, cmap |-> c] : c \in PureMaps}
    /\ matches = NoResult
    /\ emitted = NoResult
    /\ CacheUnused

\* Song::signatures(width, height, constellation_map), collected
EmitSignatures ==
    /\ phase = "Pure"
    /\ config.set
    /\ ~emitted.set
    /\ LET r == ConfigSignatures(config, sample.cmap, overflow_checks)
       IN  emitted' = [set |-> TRUE, ok |-> r.ok, val |-> r.val]
    /\ UNCHANGED <<args, config, overflow_checks, phase, data, added, slots,
                   finished, db_data, db_song_paths, sample, matches,
                   cache_vars>>

NextPure == EmitSignatures

SpecPure == InitPure /\ [][NextPure]_vars

----------------------------------------------------------------------------
(* DatabaseConfig::from_args alone, over small command lines *)

ArgsDomain ==
    [ms_timeslice_size : {50}, freq_per_slice : {0, 1, 2}, size_bucket : {1, 2},
     count_bucket : {1, 2}, width_target_zone : {1, 2, 3},
     target_zone_height : {1, 2, 3}, fuzz_factor : {0, 1}]

InitArgs ==
    /\ args \in ArgsDomain
    /\ config = NoConfig
    /\ overflow_checks = TRUE
    /\ phase = "Pure"
    /\ data = <<>>
    /\ added = <<>>
    /\ slots = <<>>
    /\ finished = <<>>
    /\ db_data = <<>>
    /\ db_song_paths = <<>>
    /\ sample = NoSample
    /\ matches = NoResult
    /\ emitted = NoResult
    /\ CacheUnused

\* main: let db_config = DatabaseConfig::from_args(Args::parse())
FromArgs ==
    /\ ~config.set
    /\ config' = from_args(args)
    /\ UNCHANGED <<args, overflow_checks, phase, data, added, slots, finished,
                   db_data, db_song_paths, sample, matches, emitted,
                   cache_vars>>

NextArgs == FromArgs

SpecArgs == InitArgs /\ [][NextArgs]_vars

----------------------------------------------------------------------------
(* The peak selection of Song::constellation_map alone, over given spectra *)

\* Number of bins the FFT of one slice yields
SpectrumBins == 6

\* real_fft().iter().map(norm): one amplitude per bin
Spectra == SeqsOfLen(0..MaxAmpl, SpectrumBins)

\* .take(bucket_size * bucket_count).enumerate(): the pairs (freq, ampl), bins
\* counted from 0
freq_amplitudes(spectrum, bucket_size, bucket_count) ==
    [k \in 1..Min(Len(spectrum), bucket_size * bucket_count) |->
        <<k - 1, spectrum[k]>>]

\* .chunks_exact(bucket_size): whole buckets only
chunks_exact(fa, bucket_size) ==
    [c \in 1..(Len(fa) \div bucket_size) |->
        SubSeq(fa, (c - 1) * bucket_size + 1, c * bucket_size)]

\* Iterator::max_by over the amplitude: of several equally maximum elements
\* the last is returned
max_by(freq_bucket) ==
    LET k == CHOOSE k \in 1..Len(freq_bucket) :
                 /\ \A j \in 1..Len(freq_bucket) : freq_bucket[j][2] <= freq_bucket[k][2]
                 /\ \A j \in (k + 1)..Len(freq_bucket) :
                        freq_bucket[j][2] < freq_bucket[k][2]
    IN  freq_bucket[k]

\* One winner per bucket, in bucket order
bucket_frequencies(spectrum, bucket_size, bucket_count) ==
    LET chunks == chunks_exact(freq_amplitudes(spectrum, bucket_size, bucket_count),
                               bucket_size)
    IN  [c \in 1..Len(chunks) |-> max_by(chunks[c])]

\* slice::sort_unstable_by, amplitude descending: the order of equal elements
\* is not specified, so every descending arrangement is a possible outcome
sort_unstable_by(v) ==
    {w \in {[k \in 1..Len(v) |-> v[p[k]]] : p \in Permutations(1..Len(v))} :
        \A k \in 1..(Len(v) - 1) : w[k][2] >= w[k + 1][2]}

\* .map(|(freq, _)| freq).take(freq_per_slice).collect()
take_freqs(sorted, freq_per_slice) ==
    [k \in 1..Min(Len(sorted), freq_per_slice) |-> sorted[k][1]]

\* Command lines that differ in the bucket count and the peaks kept per slice
PeakArgs ==
    {[ModelArgs EXCEPT !.size_bucket = 2, !.count_bucket = c, !.freq_per_slice = k] :
        c \in {2, 3}, k \in {1, 2}}

InitPeaks ==
    /\ args \in PeakArgs
    /\ config = from_args(args)
    /\ overflow_checks = TRUE
    /\ phase = "Pure"
    /\ data = <<>>
    /\ added = <<>>
    /\ slots = <<>>
    /\ finished = <<>>
    /\ db_data = <<>>
    /\ db_song_paths = <<>>
    /\ sample \in {[set |-> TRUE, spectrum |-> sp] : sp \in Spectra}
    /\ matches = NoResult
    /\ emitted = NoResult
    /\ CacheUnused

\* The closure constellation_map maps over the slices, from the amplitudes on
ConstellationSlice ==
    /\ phase = "Pure"
    /\ ~emitted.set
    /\ \E sorted \in sort_unstable_by(bucket_frequencies(sample.spectrum,
                                                         config.bucket_size,
                                                         config.bucket_count)) :
           emitted' = [set |-> TRUE, ok |-> TRUE,
                       val |-> take_freqs(sorted, config.freq_per_slice)]
    /\ UNCHANGED <<args, config, overflow_checks, phase, data, added, slots,
                   finished, db_data, db_song_paths, sample, matches,
                   cache_vars>>

NextPeaks == ConstellationSlice

SpecPeaks == InitPeaks /\ [][NextPeaks]_vars

----------------------------------------------------------------------------
(* DatabaseBuilder with a cache directory, over several runs of the program *)

\* DatabaseConfig::cached_dir_name: the 64-bit hash of the fields in their
\* declared order, as 16 hex digits; kept here as the hashed fields
\* themselves, that is, taken to be free of collisions
cached_dir_name(cfg) ==
    <<cfg.slice_size, cfg.freq_per_slice, cfg.bucket_size, cfg.bucket_count,
      cfg.target_zone_size>>

\* songs_dir.push(file_path)
SongPath(name) == <<"songs", name>>

\* SongEntry::cached_file_name: the name and the hash of (name, path); the
\* content of the file is no part of it
cached_file_name(entry) == <<entry.name, <<entry.name, SongPath(entry.name)>>>>

\* serde_json::to_string(&SongData): the numbers of the nested arrays, in order
to_string(songdata) ==
    Flatten([k \in 1..Len(songdata) |->
                <<songdata[k][1][1][1], songdata[k][1][1][2], songdata[k][1][2],
                  songdata[k][2]>>])

\* serde_json::from_slice::<SongData>
from_slice(json) ==
    IF Len(json) % 4 # 0 THEN Panic
    ELSE Ok([k \in 1..(Len(json) \div 4) |->
                <<Signature(json[4 * k - 3], json[4 * k - 2], json[4 * k - 1]),
                  json[4 * k]>>])

\* serde_json::to_string(&self.config): the fields in their declared order
config_to_string(cfg) ==
    <<cfg.slice_size, cfg.freq_per_slice, cfg.bucket_size, cfg.bucket_count,
      cfg.target_zone_size[1], cfg.target_zone_size[2]>>

\* path.push("config.json"): no cached_file_name has this form
ConfigFile == <<"config.json", <<>>>>

\* The configurations of the runs: they differ in the height of the target zone
CacheConfigs ==
    {from_args([ModelArgs EXCEPT !.width_target_zone = 2, !.target_zone_height = h]) :
        h \in {2, 4}}

\* File names of the songs directory: one song, which a builder may add twice
CacheNames == {"a"}

\* What a file of the songs directory may hold
CacheContents ==
    {[kind |-> "wav", cmap |-> c] : c \in ConstellationMaps(ModelConfig, CacheMaxSlices)}
        \cup {[kind |-> "stereo", cmap |-> <<>>], [kind |-> "missing", cmap |-> <<>>]}

\* std::fs::write(dir/file, content)
FsWrite(c, dir, file, content) ==
    [c EXCEPT ![dir] = [f \in DOMAIN c[dir] \cup {file} |->
                           IF f = file THEN content ELSE c[dir][f]]]

\* The entry add_song pushes: CachedData on a cache file that reads and
\* deserializes, else Entry
add_song_entry(c, cd, name) ==
    LET entry == [name |-> name, path |-> SongPath(name)]
        file == cached_file_name(entry)
        hit == /\ cd.set
               /\ file \in DOMAIN c[cd.path]
               /\ from_slice(c[cd.path][file]).ok
    IN  IF hit
        THEN [kind |-> "CachedData", name |-> name,
              songdata |-> from_slice(c[cd.path][file]).val]
        ELSE [kind |-> "Entry", name |-> name, path |-> SongPath(name)]

\* What build without a cache directory makes of one song under cfg: the
\* worker's result on the content the file has now
Uncached(cfg, name) ==
    Worker(cfg, [name |-> name, path |-> songs_dir[name]], overflow_checks)

InitCache ==
    /\ args = ModelArgs
    /\ config = NoConfig
    /\ overflow_checks = TRUE
    /\ phase = "Idle"
    /\ data = <<>>
    /\ added = <<>>
    /\ slots = <<>>
    /\ finished = <<>>
    /\ db_data = <<>>
    /\ db_song_paths = <<>>
    /\ sample = NoSample
    /\ matches = NoResult
    /\ emitted = NoResult
    /\ songs_dir = [n \in CacheNames |-> [kind |-> "missing", cmap |-> <<>>]]
    /\ cache = <<>>
    /\ cache_dir = NoCacheDir
    /\ build_config = NoConfig

\* Between two runs a file of the songs directory is written, replaced or
\* removed; its name and path stay
EditSong(name, content) ==
    /\ phase = "Idle"
    /\ songs_dir[name] # content
    /\ songs_dir' = [songs_dir EXCEPT ![name] = content]
    /\ UNCHANGED <<args, config, overflow_checks, phase, data, added, slots,
                   finished, db_data, db_song_paths, sample, matches, emitted,
                   cache, cache_dir, build_config>>

\* DatabaseBuilder::new(config, songs_dir, Some(cache_dir)): the subdirectory
\* named after config is found, or made
NewCached(cfg) ==
    /\ phase = "Idle"
    /\ phase' = "Building"
    /\ config' = cfg
    /\ data' = <<>>
    /\ cache_dir' = [set |-> TRUE, path |-> cached_dir_name(cfg)]
    /\ cache' = IF cached_dir_name(cfg) \in DOMAIN cache
                THEN cache
                ELSE cache @@ (cached_dir_name(cfg) :> <<>>)
    /\ UNCHANGED <<args, overflow_checks, added, slots, finished, db_data,
                   db_song_paths, sample, matches, emitted, songs_dir,
                   build_config>>

\* DatabaseBuilder::add_song with a cache directory
AddSongCached(name) ==
    /\ phase = "Building"
    /\ cache_dir.set
    /\ Len(data) < MaxSongs
    /\ data' = IF songs_dir[name].kind = "missing"
               THEN data
               ELSE Append(data, add_song_entry(cache, cache_dir, name))
    /\ UNCHANGED <<args, config, overflow_checks, phase, added, slots, finished,
                   db_data, db_song_paths, sample, matches, emitted, cache_vars>>

\* DatabaseBuilder::build(self, config), up to the start of the parallel map:
\* config.json is written from the builder's own configuration
BuildStartCached(cfg) ==
    /\ phase = "Building"
    /\ cache_dir.set
    /\ phase' = "Ingest"
    /\ build_config' = cfg
    /\ slots' = [i \in 1..Len(data) |-> NoResult]
    /\ finished' = <<>>
    /\ db_data' = DatabaseNew.data
    /\ db_song_paths' = DatabaseNew.song_paths
    /\ cache' = FsWrite(cache, cache_dir.path, ConfigFile, config_to_string(config))
    /\ UNCHANGED <<args, config, overflow_checks, data, added, sample, matches,
                   emitted, songs_dir, cache_dir>>

\* One worker of the parallel map: cached data is cloned; an Entry is read,
\* fingerprinted under the configuration passed to build, and written to the
\* builder's cache subdirectory
WorkerDoneCached(i) ==
    /\ phase = "Ingest"
    /\ cache_dir.set
    /\ ~slots[i].set
    /\ LET r == IF data[i].kind = "CachedData"
                THEN Ok(data[i].songdata)
                ELSE Uncached(build_config, data[i].name)
       IN  IF r.ok
           THEN /\ slots' = [slots EXCEPT ![i] = [set |-> TRUE, val |-> r.val]]
                /\ finished' = Append(finished, i)
                /\ phase' = phase
                /\ cache' = IF data[i].kind = "CachedData"
                            THEN cache
                            ELSE FsWrite(cache, cache_dir.path,
                                         cached_file_name(data[i]), to_string(r.val))
           ELSE /\ phase' = "Aborted"
                /\ UNCHANGED <<slots, finished, cache>>
    /\ UNCHANGED <<args, config, overflow_checks, data, added, db_data,
                   db_song_paths, sample, matches, emitted, songs_dir, cache_dir,
                   build_config>>

\* The process ends, with its database or by the panic; the two directories
\* stay on disk
EndRun ==
    /\ phase \in {"Built", "Aborted"}
    /\ cache_dir.set
    /\ phase' = "Idle"
    /\ config' = NoConfig
    /\ build_config' = NoConfig
    /\ cache_dir' = NoCacheDir
    /\ data' = <<>>
    /\ slots' = <<>>
    /\ finished' = <<>>
    /\ db_data' = <<>>
    /\ db_song_paths' = <<>>
    /\ UNCHANGED <<args, overflow_checks, added, sample, matches, emitted,
                   songs_dir, cache>>

NextCache ==
    \/ \E n \in CacheNames, c \in CacheContents : EditSong(n, c)
    \/ \E cfg \in CacheConfigs : NewCached(cfg)
    \/ \E n \in CacheNames : AddSongCached(n)
    \/ \E cfg \in CacheConfigs : BuildStartCached(cfg)
    \/ \E i \in 1..Len(data) : WorkerDoneCached(i)
    \/ BuildFinish
    \/ EndRun

SpecCache == InitCache /\ [][NextCache]_vars

----------------------------------------------------------------------------
(* Vocabulary of the properties *)

Range(s) == {s[k] : k \in 1..Len(s)}

\* Bitwise AND of two naturals
RECURSIVE BitAnd(_, _)
BitAnd(x, y) ==
    IF x = 0 \/ y = 0 THEN 0
    ELSE 2 * BitAnd(x \div 2, y \div 2) + (IF x % 2 = 1 /\ y % 2 = 1 THEN 1 ELSE 0)

\* a < b for fractions with positive denominators
FractionLess(a, b) == a[1] * b[2] < b[1] * a[2]

\* The signatures of a constellation map under the configuration in force,
\* slice by slice (<<>> where the iterator panics)
SigsOf(cmap) == ConfigSignatures(config, cmap, overflow_checks).val

\* The occurrences of fingerprints in a map: <<slice from 0, position, fingerprint>>
Occurrences(cmap) ==
    LET sg == SigsOf(cmap)
    IN  UNION {{<<t - 1, k, sg[t][k]>> : k \in 1..Len(sg[t])} : t \in 1..Len(sg)}

\* The hits of a sample on the index: one <<song id, offset, occurrence,
\* position in the posting list>> for every pair of an occurrence of a
\* fingerprint in the sample and a posting under that fingerprint, the offset
\* being the posting's anchor slice minus the sample's slice
Hits(cmap) ==
    UNION {{<<db_data[occ[3]][j][1], db_data[occ[3]][j][2] - occ[1], occ, j>> :
               j \in 1..Len(db_data[occ[3]])} :
           occ \in {o \in Occurrences(cmap) : o[3] \in DOMAIN db_data}}

\* The reference offset histogram of song `id`, read off the hits h
RefCount(h, id, d) == Cardinality({x \in h : x[1] = id /\ x[2] = d})

RefBins(h, id) == {x[2] : x \in {y \in h : y[1] = id}}

RefTotal(h, id) == Cardinality({x \in h : x[1] = id})

RefMax(h, id) ==
    LET counts == {RefCount(h, id, d) : d \in RefBins(h, id)}
    IN  CHOOSE c \in counts : \A e \in counts : e <= c

SongIds == 0..(Len(db_song_paths) - 1)

\* match_sample has returned a list for the sample in hand
Matched == sample.set /\ matches.set /\ matches.ok

----------------------------------------------------------------------------
(* C8: pair zone.  Every triple ((a, b), dt) that Song::signatures emits   *)
(* for anchor slice i has 1 <= dt < width_target_zone and i + dt < T, a a   *)
(* peak of slice i, b a peak of slice i + dt, and                          *)
(* max(a - H/2, 0) <= b < a + H/2 with the sum taken in the integers, not  *)
(* in u16; the last slice gives no anchor.                                 *)
C8_PairZone ==
    (emitted.set /\ emitted.ok) =>
        LET cmap == sample.cmap
            w == config.target_zone_size[1]
            half == config.target_zone_size[2] \div 2
        IN  /\ Len(emitted.val) = Len(cmap) - 1
            /\ \A j \in 1..Len(emitted.val) :
                 \A sig \in Range(emitted.val[j]) :
                    LET a == sig[1][1]
                        b == sig[1][2]
                        dt == sig[2]
                    IN  /\ 1 <= dt /\ dt < w
                        /\ (j - 1) + dt < Len(cmap)
                        /\ a \in Range(cmap[j])
                        /\ b \in Range(cmap[j + dt])
                        /\ (IF a >= half THEN a - half ELSE 0) <= b
                        /\ b < a + half

\* A map of three slices whose first slice pairs with the third, under a
\* zone three slices wide
C8_Witness ==
    /\ emitted.set /\ emitted.ok
    /\ Len(sample.cmap) = 3
    /\ \E sig \in Range(emitted.val[1]) : sig[2] = 2 /\ sig[1][1] # sig[1][2]

\* and one where anchor + H/2 does not fit u16 and the build wraps
C8_WitnessWrap ==
    /\ emitted.set /\ emitted.ok /\ ~overflow_checks
    /\ \E i \in 0..(Len(sample.cmap) - 2) :
          SliceOverflows(config.target_zone_size[1], config.target_zone_size[2],
                         sample.cmap, i)

----------------------------------------------------------------------------
ArgsInvalid(a) ==
    \/ a.width_target_zone < 2
    \/ a.target_zone_height < 2
    \/ a.freq_per_slice < 1

(* C6: configuration preconditions are validated on construction.  A       *)
(* command line with width_target_zone < 2, target_zone_height < 2 or      *)
(* freq_per_slice < 1 gives no DatabaseConfig.  (The fourth precondition,  *)
(* size_bucket * count_bucket <= sample_rate / 2, speaks of a sample rate  *)
(* that from_args is not given.)                                           *)
C6_InvalidArgsRejected == ArgsInvalid(args) => ~config.set

----------------------------------------------------------------------------
Fuzzed(sig) ==
    /\ BitAnd(sig[1][1], args.fuzz_factor) = 0
    /\ BitAnd(sig[1][2], args.fuzz_factor) = 0

(* C7: fuzz is always applied.  Every fingerprint that is a key of the     *)
(* index, and every fingerprint match_sample looks up, has both its        *)
(* frequencies masked: f AND fuzz_factor = 0.                              *)
C7_FuzzApplied ==
    /\ \A sig \in DOMAIN db_data : Fuzzed(sig)
    /\ Matched => \A occ \in Occurrences(sample.cmap) : Fuzzed(occ[3])

----------------------------------------------------------------------------
(* C9: the Match records agree with the reference offset histogram.  For   *)
(* every song with at least one hit exactly one Match is returned; its     *)
(* freq is the largest bin count, its n the number of populated bins, and  *)
(* its score is freq over the real-valued mean total / n:                  *)
(* score * total = freq * n.                                               *)
C9_MatchesHistogram ==
    Matched =>
        LET h == Hits(sample.cmap)
            hit == {x[1] : x \in h}
        IN  /\ {m.id : m \in matches.val} = hit
            /\ Cardinality(matches.val) = Cardinality(hit)
            /\ \A m \in matches.val :
                  /\ m.freq = RefMax(h, m.id)
                  /\ m.n = Cardinality(RefBins(h, m.id))
                  /\ m.score[2] > 0
                  /\ m.score[1] * RefTotal(h, m.id) = m.freq * m.n * m.score[2]

\* Two songs hit, one of them in several bins of unequal count, so that its
\* mean bin count is not a whole number
C9_Witness ==
    /\ Matched
    /\ Cardinality(matches.val) = 2
    /\ \E m \in matches.val :
          /\ m.n >= 2 /\ m.freq >= 2
          /\ RefTotal(Hits(sample.cmap), m.id) % m.n # 0

----------------------------------------------------------------------------
RefArgMax(h, id) ==
    {d \in RefBins(h, id) : RefCount(h, id, d) = RefMax(h, id)}

(* C10: best_offset tie-break.  When several bins of a song's histogram    *)
(* share the largest count, the Match reports the smallest of their        *)
(* offsets, whatever the order in which the bins are visited.              *)
C10_SmallestOffsetWins ==
    Matched =>
        LET h == Hits(sample.cmap)
        IN  \A m \in matches.val :
                \A d \in RefArgMax(h, m.id) : m.offset <= d * config.slice_size

----------------------------------------------------------------------------
IsVerbatim(id) ==
    /\ db_song_paths[id + 1] = File("wav", sample.cmap).name
    /\ Occurrences(sample.cmap) # {}

(* C1: self-match.  When the sample is a catalog song verbatim and that    *)
(* song has at least one fingerprint, the song's Match has best offset 0   *)
(* and no other Match has a greater score, so that the ranking by score    *)
(* can put it first.                                                       *)
C1_SelfMatch ==
    Matched =>
        \A id \in SongIds :
            IsVerbatim(id) =>
                \E m \in matches.val :
                    /\ m.id = id
                    /\ m.offset = 0
                    /\ \A other \in matches.val : ~FractionLess(m.score, other.score)

----------------------------------------------------------------------------
(* C4: the matcher never raises on empty input.  A sample of no slices     *)
(* makes match_sample return the empty list, and so does any sample none   *)
(* of whose fingerprints has a posting.                                    *)
C4_EmptyInputEmptyResult ==
    (sample.set /\ matches.set) =>
        /\ Len(sample.cmap) = 0 => (matches.ok /\ matches.val = {})
        /\ (\A occ \in Occurrences(sample.cmap) : occ[3] \notin DOMAIN db_data)
               => (matches.ok /\ matches.val = {})

----------------------------------------------------------------------------
Ingestible(f) == Worker(config, Entry(f), overflow_checks).ok

(* C3: per-song failure isolation.  build completes whatever the added     *)
(* files hold: it never ends in a panic, and the database it returns has   *)
(* the postings of every added song that can be ingested.                  *)
C3_BuildSurvivesBadSong ==
    /\ phase # "Aborted"
    /\ phase = "Built" =>
          \A k \in 1..Len(added) :
              Ingestible(added[k]) =>
                  \A occ \in Occurrences(added[k].cmap) :
                      /\ occ[3] \in DOMAIN db_data
                      /\ \E p \in Range(db_data[occ[3]]) : p[2] = occ[1]

----------------------------------------------------------------------------
PostingCount(sig, id, t) ==
    IF sig \in DOMAIN db_data
    THEN Cardinality({j \in 1..Len(db_data[sig]) : db_data[sig][j] = <<id, t>>})
    ELSE 0

OccurrenceCount(cmap, sig, t) ==
    Cardinality({occ \in Occurrences(cmap) : occ[1] = t /\ occ[3] = sig})

AllSignatures ==
    DOMAIN db_data
        \cup UNION {{occ[3] : occ \in Occurrences(added[k].cmap)} : k \in 1..Len(added)}

\* build has returned and the driver has not yet queried the database
JustBuilt == phase = "Built" /\ ~sample.set

(* C2: deterministic build under parallel ingest.  Whatever order the      *)
(* workers finish in, song k of the add_song order (from 0) has song_id k  *)
(* and its own label, every posting list is ordered by song_id and within  *)
(* a song by anchor slice, and the index holds exactly the fingerprint     *)
(* occurrences of the added songs; so the index is a function of the       *)
(* ordered inputs and the configuration.                                   *)
C2_DeterministicBuild ==
    JustBuilt =>
        /\ Len(db_song_paths) = Len(added)
        /\ \A k \in 1..Len(added) : db_song_paths[k] = added[k].name
        /\ \A sig \in DOMAIN db_data :
              /\ Len(db_data[sig]) > 0
              /\ \A i, j \in 1..Len(db_data[sig]) :
                    i < j =>
                        \/ db_data[sig][i][1] < db_data[sig][j][1]
                        \/ /\ db_data[sig][i][1] = db_data[sig][j][1]
                           /\ db_data[sig][i][2] <= db_data[sig][j][2]
        /\ \A sig \in AllSignatures :
              \A k \in 1..Len(added), t \in 0..MaxSlices :
                  PostingCount(sig, k - 1, t) = OccurrenceCount(added[k].cmap, sig, t)
        /\ \A sig \in DOMAIN db_data :
              \A p \in Range(db_data[sig]) : p[1] + 1 \in 1..Len(added)

\* Two different songs built, sharing a fingerprint that one of them holds at
\* two anchor slices
C2_Witness ==
    /\ JustBuilt
    /\ Len(added) = 2
    /\ added[1] # added[2]
    /\ \E sig \in DOMAIN db_data :
          /\ {p[1] : p \in Range(db_data[sig])} = {0, 1}
          /\ \E i, j \in 1..Len(db_data[sig]) :
                /\ db_data[sig][i][1] = db_data[sig][j][1]
                /\ db_data[sig][i][2] < db_data[sig][j][2]

----------------------------------------------------------------------------
C5_Step ==
    /\ (sample'.set /\ sample' # sample) => (phase = "Built" /\ phase' = "Built")
    /\ phase # "Building" => (phase' # "Building" /\ added' = added)
    /\ phase = "Built" =>
          /\ phase' = "Built"
          /\ db_data' = db_data
          /\ db_song_paths' = db_song_paths

(* C5: the lifecycle is Building -> Built with no way back.  match_sample  *)
(* runs only on the database a completed build returned; once build is     *)
(* called the builder takes no more songs; once Built, nothing (any number *)
(* of match_sample calls included) changes the postings or the labels.     *)
C5_Lifecycle == [][C5_Step]_vars

\* A match has run against a built index that holds postings, and has hits
C5_Witness ==
    /\ phase = "Built"
    /\ Matched
    /\ matches.val # {}

----------------------------------------------------------------------------
\* The bucket winner of the lowest bin among those of maximum amplitude
FirstMax(freq_bucket) ==
    LET k == CHOOSE k \in 1..Len(freq_bucket) :
                 /\ \A j \in 1..Len(freq_bucket) : freq_bucket[j][2] <= freq_bucket[k][2]
                 /\ \A j \in 1..(k - 1) : freq_bucket[j][2] < freq_bucket[k][2]
    IN  freq_bucket[k]

\* The winners in amplitude-descending order, equal amplitudes in bucket order
StableDescending(v) ==
    LET p == CHOOSE p \in Permutations(1..Len(v)) :
                 \A i, j \in 1..Len(v) :
                     i < j => \/ v[p[i]][2] > v[p[j]][2]
                              \/ v[p[i]][2] = v[p[j]][2] /\ p[i] < p[j]
    IN  [k \in 1..Len(v) |-> v[p[k]]]

RefPeaks(spectrum, cfg) ==
    LET chunks == chunks_exact(freq_amplitudes(spectrum, cfg.bucket_size,
                                               cfg.bucket_count),
                               cfg.bucket_size)
        winners == [c \in 1..Len(chunks) |-> FirstMax(chunks[c])]
    IN  take_freqs(StableDescending(winners), cfg.freq_per_slice)

\* A slice's peak list has been computed from a spectrum
PeaksEmitted == emitted.set /\ "spectrum" \in DOMAIN sample

(* C11: constellation peak selection with ties.  For every spectrum, equal *)
(* amplitudes allowed, the slice's peak list is the first freq_per_slice   *)
(* bucket winners in amplitude-descending order, where a bucket's winner   *)
(* is its bin of maximum amplitude, the lowest such bin on a tie, and      *)
(* winners of equal amplitude keep ascending bucket order.                 *)
C11_PeakSelection ==
    PeaksEmitted => emitted.val = RefPeaks(sample.spectrum, config)

----------------------------------------------------------------------------
\* What build makes of the named songs under cfg with no cache directory:
\* no database if a worker panics, else the merge of the workers' results
UncachedBuild(cfg, names) ==
    IF \E k \in 1..Len(names) : ~Uncached(cfg, names[k]).ok
    THEN Panic
    ELSE Ok(Merge(DatabaseNew,
                  [k \in 1..Len(names) |-> <<names[k], Uncached(cfg, names[k]).val>>]))

\* build has returned a database in a run that has a cache directory
BuiltWithCache == phase = "Built" /\ cache_dir.set

(* C12: the cache is a pure optimization.  Over any sequence of runs that  *)
(* share one cache directory, the configuration passed to build free to    *)
(* differ from the one given to new and the songs free to change content   *)
(* under their names, the database a run builds equals the database the    *)
(* same configuration and the same song contents give with no cache        *)
(* directory.                                                              *)
C12_CachePureOptimization ==
    BuiltWithCache =>
        LET ref == UncachedBuild(build_config, db_song_paths)
        IN  /\ ref.ok
            /\ db_data = ref.val.data
            /\ db_song_paths = ref.val.song_paths

====
